---- MODULE Spec2Model ----
(***************************************************************************)
(* uuid-console: the shell's input state machine (src/src/shell.cpp) and   *)
(* the stream transport glue (src/src/stream_console.cpp).                 *)
(*                                                                         *)
(* Characters and input bytes are their ASCII codes; a std::string is a    *)
(* sequence of codes; a std::list<std::string> is a sequence of such       *)
(* sequences.                                                              *)
(***************************************************************************)
EXTENDS Integers, Sequences, FiniteSets, TLC

\* ------------------------------------------------------------------------
\* Bounds of the model
\* ------------------------------------------------------------------------
\* longest token and longest token list drawn as tokenizer input
MaxTokLen == 1
MaxToks == 2
\* longest raw line drawn as tokenizer input
MaxRawLen == 4
\* the value this model gives MAX_COMMAND_LINE_LENGTH and MAX_LOG_MESSAGES
MaxLineLen == 2
MaxLogMessages == 2
\* log messages one shell is ever sent
MaxLogId == 3
\* the last uptime the clock reaches, and the longest delay asked for
MaxTime == 1
\* conversions one run of the tokenizer harness applies
MaxConversions == 4

\* ------------------------------------------------------------------------
\* Character codes
\* ------------------------------------------------------------------------
SPACE == 32
DQUOTE == 34
SQUOTE == 39
BACKSLASH == 92

\* control bytes of the switch in loop_normal / loop_password
CTRL_C == 3
CTRL_D == 4
BACKSPACE == 8
TAB == 9
LINE_FEED == 10
NEW_PAGE == 12
CARRIAGE_RETURN == 13
CTRL_U == 21
CTRL_W == 23
DELETE == 127

VARIABLES
    shell,      \* shell[s]: the fields of Shell object s (and its transport)
    shells_,    \* Shell::shells_, the registry
    started,    \* the shells start() was called on
    uptime,     \* uuid::get_uptime_ms()
    tk_items,   \* tokenizer harness: the current token list
    tk_line,    \* tokenizer harness: the current line
    tk_pc,      \* tokenizer harness: which of the two is current
    tk_hist     \* tokenizer harness: the values converted so far, oldest first

vars == <<shell, shells_, started, uptime, tk_items, tk_line, tk_pc, tk_hist>>
shellVars == <<shell, shells_, started, uptime>>
tkVars == <<tk_items, tk_line, tk_pc, tk_hist>>

\* ------------------------------------------------------------------------
\* Tokenizer: Shell::parse_line / Shell::format_line
\* ------------------------------------------------------------------------
\* items.back().push_back(c)
PushBackLast(items, c) ==
    [items EXCEPT ![Len(items)] = Append(@, c)]

\* One iteration of the for loop of parse_line: the switch on c.
\* st = [items, string_escape_double, string_escape_single, char_escape]
ParseChar(st, c) ==
    CASE c = SPACE ->
            IF st.string_escape_double \/ st.string_escape_single
            THEN IF st.char_escape
                 THEN [st EXCEPT !.items = PushBackLast(PushBackLast(@, BACKSLASH), SPACE),
                                 !.char_escape = FALSE]
                 ELSE [st EXCEPT !.items = PushBackLast(@, SPACE)]
            ELSE IF st.char_escape
                 THEN [st EXCEPT !.items = PushBackLast(@, SPACE),
                                 !.char_escape = FALSE]
                 ELSE IF st.items[Len(st.items)] # <<>>
                      THEN [st EXCEPT !.items = Append(@, <<>>)]
                      ELSE st
      [] c = DQUOTE ->
            IF st.char_escape \/ st.string_escape_single
            THEN [st EXCEPT !.items = PushBackLast(@, DQUOTE),
                            !.char_escape = FALSE]
            ELSE [st EXCEPT !.string_escape_double = ~@]
      [] c = SQUOTE ->
            IF st.char_escape \/ st.string_escape_double
            THEN [st EXCEPT !.items = PushBackLast(@, SQUOTE),
                            !.char_escape = FALSE]
            ELSE [st EXCEPT !.string_escape_single = ~@]
      [] c = BACKSLASH ->
            IF st.char_escape
            THEN [st EXCEPT !.items = PushBackLast(@, BACKSLASH),
                            !.char_escape = FALSE]
            ELSE [st EXCEPT !.char_escape = TRUE]
      [] OTHER ->
            IF st.char_escape
            THEN [st EXCEPT !.items = PushBackLast(PushBackLast(@, BACKSLASH), c),
                            !.char_escape = FALSE]
            ELSE [st EXCEPT !.items = PushBackLast(@, c)]

RECURSIVE ParseFrom(_, _, _)
ParseFrom(st, line, i) ==
    IF i > Len(line) THEN st
    ELSE ParseFrom(ParseChar(st, line[i]), line, i + 1)

\* std::list<std::string> Shell::parse_line(const std::string &line)
parse_line(line) ==
    ParseFrom([items |-> IF line # <<>> THEN << <<>> >> ELSE <<>>,
               string_escape_double |-> FALSE,
               string_escape_single |-> FALSE,
               char_escape |-> FALSE], line, 1).items

\* the inner loop of format_line with no case for the backslash
RECURSIVE FormatItem_backslash_plain(_, _)
FormatItem_backslash_plain(item, i) ==
    IF i > Len(item) THEN <<>>
    ELSE (IF item[i] \in {SPACE, DQUOTE, SQUOTE}
          THEN <<BACKSLASH, item[i]>>
          ELSE <<item[i]>>) \o FormatItem_backslash_plain(item, i + 1)

\* the inner loop of format_line: one item, each special character preceded
\* by a backslash
RECURSIVE FormatItem(_, _)
FormatItem(item, i) ==
    IF i > Len(item) THEN <<>>
    ELSE (IF item[i] \in {SPACE, DQUOTE, SQUOTE, BACKSLASH}
          THEN <<BACKSLASH, item[i]>>
          ELSE <<item[i]>>) \o FormatItem(item, i + 1)

RECURSIVE FormatFrom(_, _, _)
FormatFrom(line, items, k) ==
    IF k > Len(items) THEN line
    ELSE FormatFrom((IF line # <<>> THEN Append(line, SPACE) ELSE line)
                        \o FormatItem(items[k], 1),
                    items, k + 1)

\* std::string Shell::format_line(const std::list<std::string> &items)
format_line(items) == FormatFrom(<<>>, items, 1)

\* ------------------------------------------------------------------------
\* Tokenizer harness: token lists and raw lines drawn from bounded sets,
\* converted back and forth by format_line and parse_line
\* ------------------------------------------------------------------------
TokChars == {97, SPACE, DQUOTE, SQUOTE, BACKSLASH}

SeqsUpTo(S, n) == UNION {[1..k -> S] : k \in 0..n}

Tokens == SeqsUpTo(TokChars, MaxTokLen)
TokenLists == SeqsUpTo(Tokens, MaxToks)
RawLines == SeqsUpTo(TokChars, MaxRawLen)

TkIdle ==
    /\ tk_items = <<>> /\ tk_line = <<>> /\ tk_pc = "idle" /\ tk_hist = <<>>

ShellIdle ==
    /\ shell = <<>> /\ shells_ = {} /\ started = {} /\ uptime = 0

InitTok ==
    /\ ShellIdle
    /\ tk_hist = <<>>
    /\ \/ tk_pc = "items" /\ tk_items \in TokenLists /\ tk_line = <<>>
       \/ tk_pc = "line" /\ tk_line \in RawLines /\ tk_items = <<>>

\* line = format_line(items)
TkFormat ==
    /\ tk_pc = "items"
    /\ Len(tk_hist) < MaxConversions
    /\ tk_line' = format_line(tk_items)
    /\ tk_hist' = Append(tk_hist, tk_items)
    /\ tk_pc' = "line"
    /\ UNCHANGED <<tk_items, shellVars>>

\* items = parse_line(line)
TkParse ==
    /\ tk_pc = "line"
    /\ Len(tk_hist) < MaxConversions
    /\ tk_items' = parse_line(tk_line)
    /\ tk_hist' = Append(tk_hist, tk_line)
    /\ tk_pc' = "items"
    /\ UNCHANGED <<tk_line, shellVars>>

NextTok == TkFormat \/ TkParse

SpecTok == InitTok /\ [][NextTok]_vars

\* C2: parse_line(format_line(tokens)) = tokens for every list of tokens over
\* printable ASCII, empty tokens included: whenever a token list was formatted
\* and the line parsed again, the tokens obtained are the tokens formatted.
C2_RoundTrip ==
    (tk_pc = "items" /\ Len(tk_hist) >= 2) => tk_items = tk_hist[Len(tk_hist) - 1]

\* ------------------------------------------------------------------------
\* Shell objects
\* ------------------------------------------------------------------------
Shells == {1, 2}

\* the callbacks (password_function / delay_function values) and the
\* password prompts the callers hand in
Fns == {1, 2}
Prompts == {<<80>>}

\* Shell::maximum_command_line_length / Shell::maximum_log_messages
maximum_command_line_length == MaxLineLen
maximum_log_messages == MaxLogMessages

\* mode_data_: empty, a PasswordData or a DelayData
NoData == [kind |-> "none", password_prompt_ |-> <<>>, delay_time_ |-> 0, function_ |-> 0]
PasswordData(prompt, function) ==
    [kind |-> "password", password_prompt_ |-> prompt, delay_time_ |-> 0,
     function_ |-> function]
DelayData(delay_time, function) ==
    [kind |-> "delay", password_prompt_ |-> <<>>, delay_time_ |-> delay_time,
     function_ |-> function]

\* What the code outside the shell does with the Shell& it is handed (the
\* dispatcher's command, a password or delay callback): one call, or none.
NoAct == [op |-> "none", prompt |-> <<>>, ms |-> 0, function |-> 0]
Acts ==
    {NoAct, [NoAct EXCEPT !.op = "stop"]}
    \cup {[NoAct EXCEPT !.op = "enter_password", !.prompt = p, !.function = f] :
            p \in Prompts, f \in Fns}
    \cup {[NoAct EXCEPT !.op = "delay_for", !.ms = d, !.function = f] :
            d \in 0..MaxTime, f \in Fns}

\* What the dispatcher answers in one tick: for execute_command the act of
\* the command and whether it returns an error; for complete_command the
\* help lines and the replacement.
Replacements == {<<>>, <<<<97, 97>>>>, <<<<97>>, <<97, SPACE>>>>}
Helps == {<<>>, <<<<<<97>>>>>>}
NoEnv == [act |-> NoAct, error |-> FALSE, help |-> <<>>, replacement |-> <<>>]
ActEnvs ==
    {[NoEnv EXCEPT !.act = a] : a \in Acts} \cup {[NoEnv EXCEPT !.error = TRUE]}
CompEnvs == {[NoEnv EXCEPT !.help = h, !.replacement = r] : h \in Helps, r \in Replacements}

\* What the latest operation left behind for the observer: tx, the chunks it
\* wrote to the transport, each with the mode it was written in; trace, the
\* calls made on the shell and out of it, in order, each with its argument
\* (the callback, the byte, the message id), flag and text.  A call out of
\* the shell (a callback, the dispatcher, a hook) is recorded with the
\* shell's mode, mode data and line buffer at the call.  rx_last is the
\* byte the shell took off its stream last, as the observer saw it; sent
\* holds the log messages handed to the shell since its last tick.
Event(kind, arg, flag, text) ==
    [kind |-> kind, arg |-> arg, flag |-> flag, text |-> text,
     mode |-> "", data |-> NoData, buffer |-> <<>>]

Emit(sh, kind, arg, flag, text) ==
    [sh EXCEPT !.trace = Append(@, Event(kind, arg, flag, text))]

EmitCall(sh, kind, arg, flag, text) ==
    [sh EXCEPT !.trace =
        Append(@, [Event(kind, arg, flag, text)
                       EXCEPT !.mode = sh.mode_, !.data = sh.mode_data_,
                              !.buffer = sh.line_buffer_])]

Observed(sh) == [sh EXCEPT !.tx = <<>>, !.trace = <<>>]

\* no queued log message: what a reference to none reads as
NoEntry == [id_ |-> -1, content_ |-> 0]

\* Shell::Shell and the member initialisers.  log_pc, log_ref and log_done
\* are the place of the loop in output_logs when its steps are taken one at
\* a time (the message `message` refers to, the one rendered before it);
\* put_pc and put_message are the place of the logger in operator<<.
NewShell(commands) ==
    [commands_ |-> commands,
     line_buffer_ |-> <<>>,
     mode_ |-> "NORMAL",
     mode_data_ |-> NoData,
     previous_ |-> 0,
     log_messages_ |-> <<>>,
     log_message_id_ |-> 0,
     stopped_ |-> FALSE,
     prompt_displayed_ |-> FALSE,
     stream_ |-> <<>>,
     rx_last |-> 0,
     sent |-> <<>>,
     log_pc |-> "idle",
     log_ref |-> NoEntry,
     log_done |-> NoEntry,
     put_pc |-> "idle",
     put_message |-> 0,
     tx |-> <<>>,
     trace |-> <<>>]

\* StreamConsole::print / Shell::print: the bytes go to the stream
print(sh, data) ==
    IF data = <<>> THEN sh
    ELSE [sh EXCEPT !.tx = Append(@, [mode |-> sh.mode_, data |-> data])]

\* println(): the line terminator
println(sh) == print(sh, <<13, 10>>)

\* Shell::running
running(sh) == ~sh.stopped_

\* stop without its running() guard
stop_unguarded(sh) ==
    EmitCall([Emit(sh, "stop", 0, FALSE, <<>>) EXCEPT !.stopped_ = TRUE],
             "stopped", 0, FALSE, <<>>)

\* Shell::stop
stop(sh) ==
    LET s0 == Emit(sh, "stop", 0, FALSE, <<>>) IN
    IF running(s0)
    THEN EmitCall([s0 EXCEPT !.stopped_ = TRUE], "stopped", 0, FALSE, <<>>)
    ELSE s0

\* Shell::erase_current_line
erase_current_line(sh) ==
    [print(sh, <<27, 91, 48, 71, 27, 91, 75>>) EXCEPT !.prompt_displayed_ = FALSE]

\* Shell::erase_characters
erase_characters(sh, count) ==
    print(print(sh, [i \in 1..count |-> 8]), <<27, 91, 75>>)

\* Shell::display_prompt, with the default hostname_text, context_text,
\* prompt_prefix and prompt_suffix
display_prompt(sh) ==
    CASE sh.mode_ = "DELAY" -> sh
      [] sh.mode_ = "PASSWORD" -> print(sh, sh.mode_data_.password_prompt_)
      [] sh.mode_ = "NORMAL" ->
            [print(print(print(sh, <<36>>), <<SPACE>>), sh.line_buffer_)
                EXCEPT !.prompt_displayed_ = TRUE]

\* enter_password without its mode guard
enter_password_unguarded(sh, prompt, function) ==
    [Emit(sh, "enter_password", function, FALSE, prompt)
        EXCEPT !.mode_ = "PASSWORD",
               !.mode_data_ = PasswordData(prompt, function)]

\* Shell::enter_password
enter_password(sh, prompt, function) ==
    LET s0 == Emit(sh, "enter_password", function, FALSE, prompt) IN
    IF s0.mode_ = "NORMAL"
    THEN [s0 EXCEPT !.mode_ = "PASSWORD",
                    !.mode_data_ = PasswordData(prompt, function)]
    ELSE s0

\* Shell::delay_until
delay_until(sh, ms, function) ==
    LET s0 == Emit(sh, "delay_until", function, FALSE, <<ms>>) IN
    IF s0.mode_ = "NORMAL"
    THEN [s0 EXCEPT !.mode_ = "DELAY",
                    !.mode_data_ = DelayData(ms, function)]
    ELSE s0

\* Shell::delay_for
delay_for(sh, ms, function) ==
    delay_until(Emit(sh, "delay_for", function, FALSE, <<ms>>), uptime + ms, function)

\* the call the outside code makes on the shell it was handed
Call(sh, act) ==
    CASE act.op = "stop" -> stop(sh)
      [] act.op = "enter_password" -> enter_password(sh, act.prompt, act.function)
      [] act.op = "delay_for" -> delay_for(sh, act.ms, act.function)
      [] OTHER -> sh


\* std::string::find_last_of(' '): the 0-based position, -1 for npos
RECURSIVE FindLastOf(_, _, _)
FindLastOf(str, c, i) ==
    IF i = 0 THEN -1
    ELSE IF str[i] = c THEN i - 1
    ELSE FindLastOf(str, c, i - 1)

\* delete_buffer_word with resize(pos + 1)
delete_buffer_word_keeps_space(sh, display) ==
    LET pos == FindLastOf(sh.line_buffer_, SPACE, Len(sh.line_buffer_)) IN
    IF pos = -1
    THEN LET cleared == [sh EXCEPT !.line_buffer_ = <<>>] IN
         IF display THEN display_prompt(erase_current_line(cleared)) ELSE cleared
    ELSE LET shown == IF display
                      THEN erase_characters(sh, Len(sh.line_buffer_) - pos)
                      ELSE sh
         IN [shown EXCEPT !.line_buffer_ = SubSeq(@, 1, pos + 1)]

\* Shell::delete_buffer_word
delete_buffer_word(sh, display) ==
    LET pos == FindLastOf(sh.line_buffer_, SPACE, Len(sh.line_buffer_)) IN
    IF pos = -1
    THEN LET cleared == [sh EXCEPT !.line_buffer_ = <<>>] IN
         IF display THEN display_prompt(erase_current_line(cleared)) ELSE cleared
    ELSE LET shown == IF display
                      THEN erase_characters(sh, Len(sh.line_buffer_) - pos)
                      ELSE sh
         IN [shown EXCEPT !.line_buffer_ = SubSeq(@, 1, pos)]

\* Shell::QueuedLogMessage
QueuedLogMessage(id, content) == [id_ |-> id, content_ |-> content]

\* the log messages the logger delivers
Messages == {77, 78}

\* operator<< with > for >=
LogAppend_off_by_one(sh, message) ==
    LET s0 == Emit(sh, "operator<<", sh.log_message_id_, FALSE, <<>>)
        room == IF Len(s0.log_messages_) > maximum_log_messages
                THEN [s0 EXCEPT !.log_messages_ = Tail(@)]
                ELSE s0
    IN [room EXCEPT !.log_messages_ = Append(@, QueuedLogMessage(sh.log_message_id_, message)),
                    !.log_message_id_ = @ + 1]

\* Shell::operator<<
LogAppend(sh, message) ==
    LET s0 == Emit(sh, "operator<<", sh.log_message_id_, FALSE, <<>>)
        room == IF Len(s0.log_messages_) >= maximum_log_messages
                THEN [s0 EXCEPT !.log_messages_ = Tail(@)]
                ELSE s0
    IN [room EXCEPT !.log_messages_ = Append(@, QueuedLogMessage(sh.log_message_id_, message)),
                    !.log_message_id_ = @ + 1]

\* the while loop of output_logs: render the front message, pop it
RECURSIVE DrainLogs(_)
DrainLogs(sh) ==
    IF sh.log_messages_ = <<>> THEN sh
    ELSE LET message == Head(sh.log_messages_)
             shown == println(print(Emit(sh, "log", message.id_, FALSE, <<>>),
                                    <<message.content_, 48 + message.id_>>))
         IN DrainLogs([shown EXCEPT !.log_messages_ = Tail(@)])

\* output_logs without the display_prompt after the loop
output_logs_no_redraw(sh) ==
    IF sh.log_messages_ # <<>>
    THEN DrainLogs(IF sh.mode_ # "DELAY" THEN erase_current_line(sh) ELSE sh)
    ELSE sh

\* Shell::output_logs
output_logs(sh) ==
    IF sh.log_messages_ # <<>>
    THEN display_prompt(DrainLogs(IF sh.mode_ # "DELAY"
                                  THEN erase_current_line(sh)
                                  ELSE sh))
    ELSE sh

\* process_command displaying the prompt whether the shell runs or not
process_command_always_prompts(sh, env) ==
    LET s0 == Emit(sh, "process_command", 0, FALSE, <<>>)
        command_line == parse_line(s0.line_buffer_)
        s1 == [println([s0 EXCEPT !.line_buffer_ = <<>>]) EXCEPT !.prompt_displayed_ = FALSE]
        s2 == IF command_line # <<>> /\ s1.commands_
              THEN LET done == Call(EmitCall(s1, "execute_command", 0, FALSE, command_line),
                                    env.act)
                   IN IF env.error THEN println(print(done, <<69>>)) ELSE done
              ELSE s1
    IN display_prompt(s2)

\* Shell::process_command; env is the dispatcher's answer
process_command(sh, env) ==
    LET s0 == Emit(sh, "process_command", 0, FALSE, <<>>)
        command_line == parse_line(s0.line_buffer_)
        s1 == [println([s0 EXCEPT !.line_buffer_ = <<>>]) EXCEPT !.prompt_displayed_ = FALSE]
        s2 == IF command_line # <<>> /\ s1.commands_
              THEN LET done == Call(EmitCall(s1, "execute_command", 0, FALSE, command_line),
                                    env.act)
                   IN IF env.error THEN println(print(done, <<69>>)) ELSE done
              ELSE s1
    IN IF running(s2) THEN display_prompt(s2) ELSE s2

\* the for loop of process_completion: println(format_line(help))
RECURSIVE PrintHelp(_, _, _)
PrintHelp(sh, help, i) ==
    IF i > Len(help) THEN sh
    ELSE PrintHelp(println(print(sh, format_line(help[i]))), help, i + 1)

\* Shell::process_completion; env is the dispatcher's answer
process_completion(sh, env) ==
    LET command_line == parse_line(sh.line_buffer_) IN
    IF command_line # <<>> /\ sh.commands_
    THEN LET s0 == EmitCall(sh, "complete_command", 0, FALSE, command_line)
             s1 == IF env.help # <<>>
                   THEN PrintHelp(println(s0), env.help, 1)
                   ELSE s0
             redisplay1 == env.help # <<>>
             s2 == IF env.replacement # <<>>
                   THEN [(IF ~redisplay1 THEN erase_current_line(s1) ELSE s1)
                            EXCEPT !.line_buffer_ = format_line(env.replacement)]
                   ELSE s1
             redisplay2 == redisplay1 \/ env.replacement # <<>>
         IN IF redisplay2 THEN display_prompt(s2) ELSE s2
    ELSE sh

\* process_password clearing the line buffer before the callback is called
process_password_clears_first(sh, completed, env) ==
    LET s0 == println(Emit(sh, "process_password", 0, completed, <<>>))
        function_copy == s0.mode_data_.function_
        s1 == [s0 EXCEPT !.mode_ = "NORMAL", !.mode_data_ = NoData,
                         !.line_buffer_ = <<>>]
        s2 == Call(EmitCall(s1, "password_function", function_copy, completed,
                            s1.line_buffer_),
                   env.act)
    IN IF running(s2) THEN display_prompt(s2) ELSE s2

\* Shell::process_password; env.act is what the password callback does
process_password(sh, completed, env) ==
    LET s0 == println(Emit(sh, "process_password", 0, completed, <<>>))
        function_copy == s0.mode_data_.function_
        s1 == [s0 EXCEPT !.mode_ = "NORMAL", !.mode_data_ = NoData]
        s2 == Call(EmitCall(s1, "password_function", function_copy, completed,
                        s1.line_buffer_),
                   env.act)
        s3 == [s2 EXCEPT !.line_buffer_ = <<>>]
    IN IF running(s3) THEN display_prompt(s3) ELSE s3


\* StreamConsole::read as read_one_char sees it: the next byte of the
\* stream, -1 when none is available
read_one_char(sh) == IF sh.stream_ = <<>> THEN -1 ELSE Head(sh.stream_)

\* the byte is taken off the stream; the observer notes it, and whether it
\* follows a carriage return
Consume(sh) ==
    Emit([sh EXCEPT !.stream_ = Tail(@), !.rx_last = Head(sh.stream_)],
         "read", Head(sh.stream_), sh.rx_last = CARRIAGE_RETURN, <<>>)

\* the switch of Shell::loop_normal
NormalByte(sh, c, env) ==
    CASE c = CTRL_C ->
            display_prompt([println([sh EXCEPT !.line_buffer_ = <<>>])
                                EXCEPT !.prompt_displayed_ = FALSE])
      [] c = CTRL_D ->
            IF sh.line_buffer_ = <<>>
            THEN EmitCall(sh, "end_of_transmission", 0, FALSE, <<>>)
            ELSE sh
      [] c \in {BACKSPACE, DELETE} ->
            IF sh.line_buffer_ # <<>>
            THEN [erase_characters(sh, 1)
                    EXCEPT !.line_buffer_ = SubSeq(@, 1, Len(@) - 1)]
            ELSE sh
      [] c = TAB -> process_completion(sh, env)
      [] c = LINE_FEED ->
            IF sh.previous_ # CARRIAGE_RETURN THEN process_command(sh, env) ELSE sh
      [] c = NEW_PAGE -> display_prompt(erase_current_line(sh))
      [] c = CARRIAGE_RETURN -> process_command(sh, env)
      [] c = CTRL_U ->
            display_prompt([erase_current_line(sh) EXCEPT !.line_buffer_ = <<>>])
      [] c = CTRL_W -> delete_buffer_word(sh, TRUE)
      [] OTHER ->
            IF c >= 32 /\ c <= 126
               /\ Len(sh.line_buffer_) < maximum_command_line_length
            THEN print([sh EXCEPT !.line_buffer_ = Append(@, c)], <<c>>)
            ELSE sh

\* Shell::loop_normal
loop_normal(sh, env) ==
    IF read_one_char(sh) < 0 THEN sh
    ELSE LET c == read_one_char(sh) IN
         [NormalByte(Consume(sh), c, env) EXCEPT !.previous_ = c]

\* the switch of loop_password echoing text as the switch of loop_normal does
PasswordByte_echo(sh, c, env) ==
    CASE c = CTRL_C -> process_password(sh, FALSE, env)
      [] c \in {BACKSPACE, DELETE} ->
            IF sh.line_buffer_ # <<>>
            THEN [sh EXCEPT !.line_buffer_ = SubSeq(@, 1, Len(@) - 1)]
            ELSE sh
      [] c = LINE_FEED ->
            IF sh.previous_ # CARRIAGE_RETURN
            THEN process_password(sh, TRUE, env)
            ELSE sh
      [] c = NEW_PAGE -> display_prompt(erase_current_line(sh))
      [] c = CARRIAGE_RETURN -> process_password(sh, TRUE, env)
      [] c = CTRL_U -> [sh EXCEPT !.line_buffer_ = <<>>]
      [] c = CTRL_W -> delete_buffer_word(sh, FALSE)
      [] OTHER ->
            IF c >= 32 /\ c <= 126
               /\ Len(sh.line_buffer_) < maximum_command_line_length
            THEN print([sh EXCEPT !.line_buffer_ = Append(@, c)], <<c>>)
            ELSE sh

\* the switch of Shell::loop_password
PasswordByte(sh, c, env) ==
    CASE c = CTRL_C -> process_password(sh, FALSE, env)
      [] c \in {BACKSPACE, DELETE} ->
            IF sh.line_buffer_ # <<>>
            THEN [sh EXCEPT !.line_buffer_ = SubSeq(@, 1, Len(@) - 1)]
            ELSE sh
      [] c = LINE_FEED ->
            IF sh.previous_ # CARRIAGE_RETURN
            THEN process_password(sh, TRUE, env)
            ELSE sh
      [] c = NEW_PAGE -> display_prompt(erase_current_line(sh))
      [] c = CARRIAGE_RETURN -> process_password(sh, TRUE, env)
      [] c = CTRL_U -> [sh EXCEPT !.line_buffer_ = <<>>]
      [] c = CTRL_W -> delete_buffer_word(sh, FALSE)
      [] OTHER ->
            IF c >= 32 /\ c <= 126
               /\ Len(sh.line_buffer_) < maximum_command_line_length
            THEN [sh EXCEPT !.line_buffer_ = Append(@, c)]
            ELSE sh

\* loop_password without its update of previous_
loop_password_keeps_previous(sh, env) ==
    IF read_one_char(sh) < 0 THEN sh
    ELSE PasswordByte(Consume(sh), read_one_char(sh), env)

\* Shell::loop_password
loop_password(sh, env) ==
    IF read_one_char(sh) < 0 THEN sh
    ELSE LET c == read_one_char(sh) IN
         [PasswordByte(Consume(sh), c, env) EXCEPT !.previous_ = c]

\* loop_delay without mode_data_.reset()
loop_delay_keeps_data(sh, env) ==
    IF uptime >= sh.mode_data_.delay_time_
    THEN LET function_copy == sh.mode_data_.function_
             s1 == [sh EXCEPT !.mode_ = "NORMAL"]
             s2 == Call(EmitCall(s1, "delay_function", function_copy, FALSE,
                                 <<sh.mode_data_.delay_time_>>),
                        env.act)
         IN IF running(s2) THEN display_prompt(s2) ELSE s2
    ELSE sh

\* loop_delay with > for >=
loop_delay_late(sh, env) ==
    IF uptime > sh.mode_data_.delay_time_
    THEN LET function_copy == sh.mode_data_.function_
             s1 == [sh EXCEPT !.mode_ = "NORMAL", !.mode_data_ = NoData]
             s2 == Call(EmitCall(s1, "delay_function", function_copy, FALSE,
                                 <<sh.mode_data_.delay_time_>>),
                        env.act)
         IN IF running(s2) THEN display_prompt(s2) ELSE s2
    ELSE sh

\* Shell::loop_delay; env.act is what the delay callback does
loop_delay(sh, env) ==
    IF uptime >= sh.mode_data_.delay_time_
    THEN LET function_copy == sh.mode_data_.function_
             s1 == [sh EXCEPT !.mode_ = "NORMAL", !.mode_data_ = NoData]
             s2 == Call(EmitCall(s1, "delay_function", function_copy, FALSE,
                                 <<sh.mode_data_.delay_time_>>),
                        env.act)
         IN IF running(s2) THEN display_prompt(s2) ELSE s2
    ELSE sh

\* the switch of Shell::loop_one
LoopMode(sh, env) ==
    CASE sh.mode_ = "NORMAL" -> loop_normal(sh, env)
      [] sh.mode_ = "PASSWORD" -> loop_password(sh, env)
      [] sh.mode_ = "DELAY" -> loop_delay(sh, env)

\* Shell::loop_one
loop_one(sh, env) ==
    LoopMode(output_logs(Emit(sh, "loop_one", 0, FALSE, <<>>)), env)

\* Shell::invoke_command
invoke_command(sh, line, env) ==
    LET s0 == Emit(sh, "invoke_command", 0, FALSE, line)
        s1 == IF s0.line_buffer_ # <<>>
              THEN [println(s0) EXCEPT !.prompt_displayed_ = FALSE]
              ELSE s0
        s2 == IF ~s1.prompt_displayed_ THEN display_prompt(s1) ELSE s1
        s3 == [s2 EXCEPT !.line_buffer_ = line]
    IN process_command(print(s3, s3.line_buffer_), env)


\* ------------------------------------------------------------------------
\* The operations on the shells
\* ------------------------------------------------------------------------
\* bytes the transport delivers: the control bytes of the two switches, two
\* printable characters and one byte neither switch handles
InputBytes ==
    {CTRL_C, CTRL_D, BACKSPACE, TAB, LINE_FEED, NEW_PAGE, CARRIAGE_RETURN,
     CTRL_U, CTRL_W, DELETE, SPACE, 97, 27}

\* lines handed to invoke_command
InvokedLines == {<<97>>}

\* shell s after an operation with the given result; the observations of
\* the other shells are of an earlier operation and are dropped
After(s, result) ==
    [t \in Shells |-> IF t = s THEN result ELSE Observed(shell[t])]

\* a byte arrives on the stream (c = -1: none does); the stream holds one
\* unread byte
Arrive(sh, c) ==
    IF c >= 0 /\ sh.stream_ = <<>>
    THEN [sh EXCEPT !.stream_ = Append(@, c)]
    ELSE sh

\* the dispatcher answers and callback behaviours one tick of sh can meet
EnvsFor(sh) ==
    CASE sh.mode_ = "DELAY" ->
            IF uptime >= sh.mode_data_.delay_time_ THEN ActEnvs ELSE {NoEnv}
      [] sh.stream_ = <<>> -> {NoEnv}
      [] sh.mode_ = "NORMAL" ->
            LET c == Head(sh.stream_)
                called == sh.commands_ /\ parse_line(sh.line_buffer_) # <<>>
            IN CASE c = TAB /\ called -> CompEnvs
                 [] c = CARRIAGE_RETURN /\ called -> ActEnvs
                 [] c = LINE_FEED /\ sh.previous_ # CARRIAGE_RETURN /\ called -> ActEnvs
                 [] OTHER -> {NoEnv}
      [] Head(sh.stream_) \in {CTRL_C, CARRIAGE_RETURN} -> ActEnvs
      [] Head(sh.stream_) = LINE_FEED /\ sh.previous_ # CARRIAGE_RETURN -> ActEnvs
      [] OTHER -> {NoEnv}

\* the shells as constructed; the shells of `with` have a dispatcher
InitShells(with) ==
    /\ shell = [s \in Shells |-> NewShell(s \in with)]
    /\ shells_ = {}
    /\ started = {}
    /\ uptime = 0

\* Shell::start: the (empty) banner and the prompt
start(sh) == display_prompt(Emit(sh, "start", 0, FALSE, <<>>))

\* Shell::start
Start(s) ==
    /\ s \notin started
    /\ shell' = After(s, start(Observed(shell[s])))
    /\ shells_' = shells_ \cup {s}
    /\ started' = started \cup {s}
    /\ UNCHANGED <<uptime, tkVars>>

\* Shell::stop called from outside the loop
Stop(s) ==
    /\ s \in started
    /\ shell' = After(s, stop(Observed(shell[s])))
    /\ UNCHANGED <<shells_, started, uptime, tkVars>>

\* Shell::enter_password called from outside the loop
EnterPassword(s, prompt, function) ==
    /\ s \in shells_
    /\ shell' = After(s, enter_password(Observed(shell[s]), prompt, function))
    /\ UNCHANGED <<shells_, started, uptime, tkVars>>

\* Shell::delay_for called from outside the loop
DelayFor(s, ms, function) ==
    /\ s \in shells_
    /\ shell' = After(s, delay_for(Observed(shell[s]), ms, function))
    /\ UNCHANGED <<shells_, started, uptime, tkVars>>

\* Shell::delay_until called from outside the loop
DelayUntil(s, ms, function) ==
    /\ s \in shells_
    /\ shell' = After(s, delay_until(Observed(shell[s]), ms, function))
    /\ UNCHANGED <<shells_, started, uptime, tkVars>>

\* Shell::invoke_command called from outside the loop
InvokeCommand(s, line, env) ==
    /\ s \in shells_
    /\ shell' = After(s, invoke_command(Observed(shell[s]), line, env))
    /\ UNCHANGED <<shells_, started, uptime, tkVars>>

\* the logger hands shell s a message: Shell::operator<<
Log(s, message) ==
    /\ s \in shells_
    /\ shell[s].log_message_id_ < MaxLogId
    /\ shell' = After(s, [LogAppend(Observed(shell[s]), message)
                              EXCEPT !.sent = Append(@, message)])
    /\ UNCHANGED <<shells_, started, uptime, tkVars>>

\* the clock advances
Tick ==
    /\ uptime < MaxTime
    /\ uptime' = uptime + 1
    /\ shell' = [t \in Shells |-> Observed(shell[t])]
    /\ UNCHANGED <<shells_, started, tkVars>>

\* shell s as a pass of loop_all finds it, byte c having arrived
Fed(s, c) == Arrive(Observed(shell[s]), c)

\* the registry with erase() for the running shells instead
Erase_running(registry, shs) == {t \in registry : ~running(shs[t])}

\* what the loop of loop_all leaves of the registry: the shells that are not
\* running are erased
Erase(registry, shs) == {t \in registry : running(shs[t])}

\* one pass of loop_all with the given arrivals and answers
LoopPass(arrive, env) ==
    /\ shell' = [t \in Shells |->
                    IF t \in shells_
                    THEN [loop_one(Fed(t, arrive[t]), env[t]) EXCEPT !.sent = <<>>]
                    ELSE Observed(shell[t])]
    /\ shells_' = Erase(shells_, shell')
    /\ UNCHANGED <<started, uptime, tkVars>>

\* Shell::loop_all: loop_one on every registered shell, then the shells
\* that are no longer running leave the registry.  arrive[s] is the byte
\* that reached the stream of s since the last pass (-1: none).
LoopAll(bytes) ==
    /\ shells_ # {}
    /\ \E arrive \in [shells_ -> bytes \cup {-1}] :
        \E env \in [shells_ -> ActEnvs \cup CompEnvs] :
          /\ \A s \in shells_ : env[s] \in EnvsFor(Fed(s, arrive[s]))
          /\ LoopPass(arrive, env)

\* The mode engine: one shell with a dispatcher, the operations that start
\* and stop it and change its mode, the clock, the bytes that end a line or
\* a password and one printable byte.
ModeBytes == {CTRL_C, LINE_FEED, CARRIAGE_RETURN, 97}

Init == InitShells({1}) /\ TkIdle

Next ==
    \/ Start(1)
    \/ Stop(1)
    \/ \E p \in Prompts, f \in Fns : EnterPassword(1, p, f)
    \/ \E d \in 0..MaxTime, f \in Fns : DelayFor(1, d, f)
    \/ \E d \in 0..MaxTime, f \in Fns : DelayUntil(1, d, f)
    \/ Tick
    \/ LoopAll(ModeBytes)

Spec == Init /\ [][Next]_vars

\* The line editor: one shell with a dispatcher, fed every input byte and
\* handed lines through invoke_command.
NextEdit ==
    \/ Start(1)
    \/ \E l \in InvokedLines, e \in ActEnvs : InvokeCommand(1, l, e)
    \/ LoopAll(InputBytes)

SpecEdit == Init /\ [][NextEdit]_vars


\* The log queue: one shell, log messages, the password prompt, two input
\* bytes.
LogBytes == {CARRIAGE_RETURN, 97}

NextLog ==
    \/ Start(1)
    \/ \E m \in Messages : Log(1, m)
    \/ \E p \in Prompts, f \in Fns : EnterPassword(1, p, f)
    \/ LoopAll(LogBytes)

SpecLog == Init /\ [][NextLog]_vars

\* The registry: two shells.  Either is started and stopped; the second is
\* the one that is put in Password mode and sent log messages, so that it has
\* a mode, mode data, text and a log queue for a pass of loop_all to keep.
RegistryBytes == {97}

NextRegistry ==
    \/ \E s \in Shells : Start(s)
    \/ \E s \in Shells : Stop(s)
    \/ \E p \in Prompts, f \in Fns : EnterPassword(2, p, f)
    \/ Log(2, 77)
    \/ LoopAll(RegistryBytes)

SpecRegistry == Init /\ [][NextRegistry]_vars

\* Two runs of one shell side by side: shells 1 and 2 are started together
\* and handed the same calls, log messages, dispatcher answers and callback
\* behaviours; the bytes they are fed are the same too, except that while
\* both are in Password mode the second may be fed another printable byte
\* where the first is fed the letter a.
Printable(c) == c >= 32 /\ c <= 126

Alike(a, b) ==
    \/ a = b
    \/ /\ a = 97 /\ Printable(b)
       /\ \A s \in Shells : shell[s].mode_ = "PASSWORD"

PairBytes ==
    {BACKSPACE, NEW_PAGE, CARRIAGE_RETURN, CTRL_U, CTRL_W, SPACE, 97}

\* the answers and behaviours of the two runs: no delays
PairEnvs == {e \in ActEnvs : e.act.op # "delay_for"}

InitPair == InitShells(Shells) /\ TkIdle

PairStart ==
    /\ started = {}
    /\ shell' = [s \in Shells |-> start(Observed(shell[s]))]
    /\ shells_' = Shells
    /\ started' = Shells
    /\ UNCHANGED <<uptime, tkVars>>

PairEnterPassword(prompt, function) ==
    /\ shells_ = Shells
    /\ shell' = [s \in Shells |-> enter_password(Observed(shell[s]), prompt, function)]
    /\ UNCHANGED <<shells_, started, uptime, tkVars>>

PairLog(message) ==
    /\ shells_ = Shells
    /\ \A s \in Shells : shell[s].log_message_id_ < MaxLogId
    /\ shell' = [s \in Shells |->
                    [LogAppend(Observed(shell[s]), message)
                        EXCEPT !.sent = Append(@, message)]]
    /\ UNCHANGED <<shells_, started, uptime, tkVars>>

PairLoopAll ==
    /\ shells_ = Shells
    /\ \E a \in PairBytes \cup {-1}, b \in PairBytes \cup {-1}, e \in PairEnvs :
          LET arrive == [s \in Shells |-> IF s = 1 THEN a ELSE b] IN
          /\ Alike(a, b)
          /\ \A s \in Shells : e \in EnvsFor(Fed(s, arrive[s]))
          /\ LoopPass(arrive, [s \in Shells |-> e])

NextPair ==
    \/ PairStart
    \/ \E p \in Prompts, f \in Fns : PairEnterPassword(p, f)
    \/ PairLog(77)
    \/ PairLoopAll

SpecPair == InitPair /\ [][NextPair]_vars

\* ------------------------------------------------------------------------
\* operator<< and output_logs one statement at a time
\* ------------------------------------------------------------------------
\* log_message_id_ is an unsigned long and wraps; here it wraps after
\* MaxLogId
LogIdWrap == MaxLogId + 1

\* what a read through a dangling reference may give: the old content, or
\* whatever the freed memory holds by then
Garbage == 0

\* output_logs up to the while loop
OutputLogsBegin(sh) ==
    LET s0 == Emit(sh, "loop_one", 0, FALSE, <<>>) IN
    IF s0.log_messages_ # <<>>
    THEN [(IF s0.mode_ # "DELAY" THEN erase_current_line(s0) ELSE s0)
            EXCEPT !.log_pc = "test", !.log_done = NoEntry]
    ELSE [s0 EXCEPT !.log_pc = "dispatch"]

\* the condition of the while loop, and auto &message = front(); after the
\* loop, display_prompt
OutputLogsTest(sh) ==
    IF sh.log_messages_ = <<>>
    THEN [display_prompt(sh) EXCEPT !.log_pc = "dispatch", !.log_ref = NoEntry]
    ELSE [sh EXCEPT !.log_ref = Head(sh.log_messages_), !.log_pc = "render"]

\* the print, printf and println of the message.  The message is read
\* through the reference taken before: when the entry is the head of the
\* list no more it has been destroyed, and what is read is `read`.
OutputLogsRender(sh, read) ==
    LET live == sh.log_messages_ # <<>> /\ Head(sh.log_messages_) = sh.log_ref
        content == IF live THEN sh.log_ref.content_ ELSE read
        s0 == Emit(sh, "log", sh.log_ref.id_, ~live,
                   IF sh.log_ref = sh.log_done THEN <<1>> ELSE <<>>)
    IN [println(print(s0, <<content, 48 + sh.log_ref.id_>>))
            EXCEPT !.log_pc = "pop", !.log_done = sh.log_ref]

\* log_messages_.pop_front() of output_logs; on an empty list it is
\* undefined, which the event records
OutputLogsPop(sh) ==
    IF sh.log_messages_ = <<>>
    THEN [Emit(sh, "pop_front", -1, TRUE, <<>>) EXCEPT !.log_pc = "yield"]
    ELSE [Emit(sh, "pop_front", Head(sh.log_messages_).id_, FALSE, <<>>)
            EXCEPT !.log_messages_ = Tail(@), !.log_pc = "yield"]

\* ::yield() of output_logs
OutputLogsYield(sh) == [sh EXCEPT !.log_pc = "test"]

\* the condition of operator<<
PutCheck(sh, message) ==
    [Emit(sh, "operator<<", sh.log_message_id_, FALSE, <<>>)
        EXCEPT !.put_message = message,
               !.put_pc = IF Len(sh.log_messages_) >= maximum_log_messages
                          THEN "pop" ELSE "push"]

\* log_messages_.pop_front() of operator<<; on an empty list it is
\* undefined, which the event records
PutPop(sh) ==
    IF sh.log_messages_ = <<>>
    THEN [Emit(sh, "drop", -1, TRUE, <<>>) EXCEPT !.put_pc = "push"]
    ELSE [Emit(sh, "drop", Head(sh.log_messages_).id_, FALSE, <<>>)
            EXCEPT !.log_messages_ = Tail(@), !.put_pc = "push"]

\* log_messages_.emplace_back(log_message_id_++, message)
PutPush(sh) ==
    [sh EXCEPT !.log_messages_ =
                    Append(@, QueuedLogMessage(sh.log_message_id_, sh.put_message)),
               !.log_message_id_ = (@ + 1) % LogIdWrap,
               !.put_pc = "idle",
               !.put_message = 0]

\* one statement of output_logs in the loop of shell s
DrainStep(s) ==
    /\ s \in shells_
    /\ \/ /\ shell[s].log_pc = "idle"
          /\ shell' = After(s, OutputLogsBegin(Observed(shell[s])))
       \/ /\ shell[s].log_pc = "test"
          /\ shell' = After(s, OutputLogsTest(Observed(shell[s])))
       \/ /\ shell[s].log_pc = "render"
          /\ \E read \in {shell[s].log_ref.content_, Garbage} :
                shell' = After(s, OutputLogsRender(Observed(shell[s]), read))
       \/ /\ shell[s].log_pc = "pop"
          /\ shell' = After(s, OutputLogsPop(Observed(shell[s])))
       \/ /\ shell[s].log_pc = "yield"
          /\ shell' = After(s, OutputLogsYield(Observed(shell[s])))
    /\ UNCHANGED <<shells_, started, uptime, tkVars>>

\* the switch of loop_one after output_logs has returned
Dispatch(s, bytes) ==
    /\ s \in shells_
    /\ shell[s].log_pc = "dispatch"
    /\ \E c \in bytes \cup {-1} :
        LET fed == Arrive(Observed(shell[s]), c) IN
        \E env \in EnvsFor(fed) :
            shell' = After(s, [LoopMode(fed, env) EXCEPT !.log_pc = "idle"])
    /\ UNCHANGED <<shells_, started, uptime, tkVars>>

\* one statement of operator<< in the logger, at any time
PutStep(s) ==
    /\ s \in shells_
    /\ \/ /\ shell[s].put_pc = "idle"
          /\ \E m \in Messages : shell' = After(s, PutCheck(Observed(shell[s]), m))
       \/ /\ shell[s].put_pc = "pop"
          /\ shell' = After(s, PutPop(Observed(shell[s])))
       \/ /\ shell[s].put_pc = "push"
          /\ shell' = After(s, PutPush(Observed(shell[s])))
    /\ UNCHANGED <<shells_, started, uptime, tkVars>>

\* The logger in a context of its own: its statements interleave with
\* those of the loop.
DrainBytes == {97}

NextRace ==
    \/ Start(1)
    \/ DrainStep(1)
    \/ Dispatch(1, DrainBytes)
    \/ PutStep(1)

SpecRace == Init /\ [][NextRace]_vars

\* Command lines: one shell, with a dispatcher or with none, fed text and
\* line ends.
CommandBytes == {LINE_FEED, CARRIAGE_RETURN, SPACE, 97}

InitCommand == (\E with \in {{}, {1}} : InitShells(with)) /\ TkIdle

NextCommand ==
    \/ Start(1)
    \/ LoopAll(CommandBytes)

SpecCommand == InitCommand /\ [][NextCommand]_vars

\* ------------------------------------------------------------------------
\* Observations
\* ------------------------------------------------------------------------
\* the events of the given kinds in a trace, in order
RECURSIVE OfKind(_, _)
OfKind(trace, kinds) ==
    IF trace = <<>> THEN <<>>
    ELSE (IF Head(trace).kind \in kinds THEN <<Head(trace)>> ELSE <<>>)
            \o OfKind(Tail(trace), kinds)

\* the operation the trace is of
Op(sh) == IF sh.trace = <<>> THEN "" ELSE sh.trace[1].kind

\* the byte read in the operation the trace is of (-1: none)
ByteRead(sh) ==
    LET r == OfKind(sh.trace, {"read"}) IN IF r = <<>> THEN -1 ELSE r[1].arg

\* the fields of the Shell object, without the observations
Fields(sh) == [Observed(sh) EXCEPT !.rx_last = 0, !.sent = <<>>]

\* C1: the line buffer never holds more than maximum_command_line_length
\* characters, whatever bytes loop_one dispatched, tab completion included.
C1_BufferBound ==
    \A s \in Shells : Len(shell[s].line_buffer_) <= maximum_command_line_length

\* C3: a line feed that immediately follows a carriage return in the input
\* causes no process_command and no process_password, whatever mode the
\* shell is in by then; the carriage return itself causes exactly one.
C3_CrLfOnce ==
    \A s \in Shells :
        LET done == OfKind(shell[s].trace, {"process_command", "process_password"})
            r == OfKind(shell[s].trace, {"read"})
        IN /\ (r # <<>> /\ r[1].arg = LINE_FEED /\ r[1].flag) => done = <<>>
           /\ (r # <<>> /\ r[1].arg = CARRIAGE_RETURN) => Len(done) = 1

\* the line feed of a CR LF pair is read in Password mode, entered by what
\* the carriage return ran, and completes nothing
C3_Witness ==
    LET r == OfKind(shell[1].trace, {"read"}) IN
    /\ r # <<>> /\ r[1].arg = LINE_FEED /\ r[1].flag
    /\ shell[1].mode_ = "PASSWORD"
    /\ shell[1].line_buffer_ = <<>>


\* C4: a delay accepted with callback cb and deadline D stays pending, with
\* no callback run, through every operation made while the uptime is below
\* D; the first loop_one tick at an uptime of D or more invokes cb exactly
\* once, with the mode already NORMAL and the mode data already cleared; no
\* delay callback runs in any other step.
C4_DelayOnce ==
    [][\A s \in Shells :
          LET sh == shell[s]
              calls == OfKind(shell'[s].trace, {"delay_function"})
          IN IF sh.mode_ = "DELAY" /\ Op(shell'[s]) = "loop_one"
                /\ uptime >= sh.mode_data_.delay_time_
             THEN /\ Len(calls) = 1
                  /\ calls[1].arg = sh.mode_data_.function_
                  /\ calls[1].mode = "NORMAL"
                  /\ calls[1].data = NoData
             ELSE /\ calls = <<>>
                  /\ sh.mode_ = "DELAY" =>
                        /\ shell'[s].mode_ = "DELAY"
                        /\ shell'[s].mode_data_ = sh.mode_data_]_vars

\* a delay callback has run for a deadline that lay in the future when the
\* clock started
C4_Witness ==
    LET calls == OfKind(shell[1].trace, {"delay_function"}) IN
    /\ calls # <<>>
    /\ calls[1].text[1] >= 1
    /\ uptime >= calls[1].text[1]

\* C7: enter_password, delay_for and delay_until called in Password or Delay
\* mode leave the mode, the mode data and the line buffer as they are;
\* called in Normal mode they set the mode and the data asked for; and the
\* callback a tick runs is the one stored as pending before the tick.
C7_ModeEntryGuard ==
    [][\A s \in Shells :
          LET sh == shell[s]
              e == shell'[s].trace[1]
              ran == OfKind(shell'[s].trace, {"password_function", "delay_function"})
          IN /\ Op(shell'[s]) \in {"enter_password", "delay_for", "delay_until"} =>
                  IF sh.mode_ # "NORMAL"
                  THEN /\ shell'[s].mode_ = sh.mode_
                       /\ shell'[s].mode_data_ = sh.mode_data_
                       /\ shell'[s].line_buffer_ = sh.line_buffer_
                  ELSE /\ shell'[s].line_buffer_ = sh.line_buffer_
                       /\ Op(shell'[s]) = "enter_password" =>
                             /\ shell'[s].mode_ = "PASSWORD"
                             /\ shell'[s].mode_data_ = PasswordData(e.text, e.arg)
                       /\ Op(shell'[s]) = "delay_until" =>
                             /\ shell'[s].mode_ = "DELAY"
                             /\ shell'[s].mode_data_ = DelayData(e.text[1], e.arg)
                       /\ Op(shell'[s]) = "delay_for" =>
                             /\ shell'[s].mode_ = "DELAY"
                             /\ shell'[s].mode_data_ = DelayData(uptime + e.text[1], e.arg)
             /\ \A i \in 1..Len(ran) : ran[i].arg = sh.mode_data_.function_]_vars

\* enter_password was called on a shell that was waiting out a delay, and
\* the delay is still pending
C7_Witness ==
    /\ Op(shell[1]) = "enter_password"
    /\ shell[1].mode_ = "DELAY"
    /\ shell[1].mode_data_.function_ # shell[1].trace[1].arg

\* C8: in Password mode ^C completes the capture with the flag false, and CR
\* or a LF that does not follow a CR with the flag true: the stored callback
\* runs exactly once, is handed the line buffer, sees the mode NORMAL and the
\* mode data cleared, and the line buffer is empty after the tick, whatever
\* mode the callback entered.  No other step runs a password callback.
C8_PasswordCompletion ==
    [][\A s \in Shells :
          LET sh == shell[s]
              c == ByteRead(shell'[s])
              r == OfKind(shell'[s].trace, {"read"})
              calls == OfKind(shell'[s].trace, {"password_function"})
          IN IF /\ sh.mode_ = "PASSWORD"
                /\ Op(shell'[s]) = "loop_one"
                /\ \/ c \in {CTRL_C, CARRIAGE_RETURN}
                   \/ c = LINE_FEED /\ ~r[1].flag
             THEN /\ Len(calls) = 1
                  /\ calls[1].arg = sh.mode_data_.function_
                  /\ calls[1].flag = (c # CTRL_C)
                  /\ calls[1].text = sh.line_buffer_
                  /\ calls[1].mode = "NORMAL"
                  /\ calls[1].data = NoData
                  /\ shell'[s].line_buffer_ = <<>>
             ELSE calls = <<>>]_vars

\* a password callback was handed typed text and entered Delay mode itself
C8_Witness ==
    LET calls == OfKind(shell[1].trace, {"password_function"}) IN
    /\ calls # <<>>
    /\ calls[1].text # <<>>
    /\ shell[1].mode_ = "DELAY"
    /\ shell[1].line_buffer_ = <<>>

\* C10: the first stop() on a running shell invokes the stopped() hook once;
\* a stop() on a shell that is not running changes nothing and invokes no
\* hook; no other step invokes the hook; a shell that is not running never
\* runs again.
C10_StopOnce ==
    [][\A s \in Shells :
          LET sh == shell[s]
              stops == OfKind(shell'[s].trace, {"stop"})
              hooks == OfKind(shell'[s].trace, {"stopped"})
          IN /\ Len(hooks) = IF stops # <<>> /\ running(sh) THEN 1 ELSE 0
             /\ (stops # <<>> /\ running(sh)) => ~running(shell'[s])
             /\ (Op(shell'[s]) = "stop" /\ ~running(sh)) =>
                    Fields(shell'[s]) = Fields(sh)
             /\ ~running(sh) => ~running(shell'[s])]_vars

\* stop() was called on a shell that had been stopped before
C10_Witness ==
    /\ Op(shell[1]) = "stop"
    /\ OfKind(shell[1].trace, {"stopped"}) = <<>>
    /\ shell[1].stopped_


\* the contents of the queued log messages, head first
Contents(queue) == [i \in 1..Len(queue) |-> queue[i].content_]

\* the last n elements of a sequence
LastOf(seq, n) == SubSeq(seq, Len(seq) - n + 1, Len(seq))

\* C5: the log queue never holds more than maximum_log_messages entries;
\* it holds the messages appended since the last drain, or, when more than
\* maximum_log_messages were appended, the maximum_log_messages latest of
\* them, in the order they were appended.
C5_LogQueueBound ==
    \A s \in Shells :
        LET queue == shell[s].log_messages_
            n == Len(shell[s].sent)
            kept == IF n > maximum_log_messages THEN maximum_log_messages ELSE n
        IN /\ Len(queue) <= maximum_log_messages
           /\ Contents(queue) = LastOf(shell[s].sent, kept)
           /\ \A i \in 1..(Len(queue) - 1) : queue[i].id_ < queue[i + 1].id_

\* more messages than the queue holds were appended with no drain between,
\* and the two that differ are among them
C5_Witness ==
    /\ Len(shell[1].sent) > maximum_log_messages
    /\ Len(shell[1].log_messages_) = maximum_log_messages
    /\ shell[1].sent[1] # shell[1].sent[Len(shell[1].sent)]

\* the fields C6 is about
Kept(sh) ==
    <<sh.line_buffer_, sh.mode_, sh.mode_data_, sh.log_messages_, sh.stopped_>>

\* C6: stop() on shell s leaves the registry and every other shell as they
\* are; the next pass of loop_all removes s and keeps every other shell t
\* that is running, and leaves t's line buffer, mode, mode data, log queue
\* and running flag alone when t's own tick has nothing to do.
C6_StopRemovesOne ==
    [][\A s \in Shells, t \in Shells :
          s # t =>
            /\ Op(shell'[s]) = "stop" =>
                  /\ shells_' = shells_
                  /\ Kept(shell'[t]) = Kept(shell[t])
            /\ ( /\ Op(shell'[s]) = "loop_one"
                 /\ ~running(shell[s])
                 /\ t \in shells_ /\ running(shell[t]) ) =>
                  /\ s \notin shells_'
                  /\ t \in shells_' <=> running(shell'[t])
                  /\ Len(shell'[t].trace) = 1 => Kept(shell'[t]) = Kept(shell[t])]_vars

\* a pass of loop_all has removed the stopped shell 1 and kept shell 2,
\* which is in Password mode with text typed
C6_Witness ==
    /\ started = Shells
    /\ shells_ = {2}
    /\ Op(shell[1]) = "loop_one"
    /\ shell[1].stopped_
    /\ Len(shell[2].trace) = 1
    /\ shell[2].mode_ = "PASSWORD"
    /\ shell[2].line_buffer_ # <<>>

\* what the shell wrote while in Password mode
RECURSIVE PasswordTx(_)
PasswordTx(tx) ==
    IF tx = <<>> THEN <<>>
    ELSE (IF Head(tx).mode = "PASSWORD" THEN Head(tx).data ELSE <<>>)
            \o PasswordTx(Tail(tx))

\* C9: two runs that differ only in which printable characters are typed in
\* Password mode write the same bytes while in Password mode.
C9_PasswordNotEchoed ==
    PasswordTx(shell[1].tx) = PasswordTx(shell[2].tx)

\* the two runs hold different captured text, and the prompt was redrawn in
\* Password mode after a log drain
C9_Witness ==
    /\ shell[1].mode_ = "PASSWORD"
    /\ shell[1].line_buffer_ # shell[2].line_buffer_
    /\ OfKind(shell[1].trace, {"log"}) # <<>>
    /\ PasswordTx(shell[1].tx) # <<>>


\* C11: the canonical form c = format_line(parse_line(line)) of a line is a
\* fixed point: whenever a line was parsed, formatted, parsed and formatted
\* again, the line obtained is the line the first cycle gave.
C11_CanonicalFixedPoint ==
    (tk_pc = "line" /\ Len(tk_hist) >= 4) => tk_line = tk_hist[Len(tk_hist) - 1]

\* two cycles were applied to a line that was not canonical, and the
\* canonical form holds an escaped character
C11_Witness ==
    /\ tk_pc = "line"
    /\ Len(tk_hist) = 4
    /\ tk_hist[1] # tk_hist[3]
    /\ \E i \in 1..Len(tk_line) : tk_line[i] = BACKSLASH
    /\ Len(tk_hist[4]) = 2


\* the escape flag parse_line holds when it reaches the end of the line
EndsEscaped(line) ==
    ParseFrom([items |-> IF line # <<>> THEN << <<>> >> ELSE <<>>,
               string_escape_double |-> FALSE,
               string_escape_single |-> FALSE,
               char_escape |-> FALSE], line, 1).char_escape

\* C15: a line that parse_line leaves with the escape flag set (it ends in an
\* unpaired backslash) is parsed as if one more backslash followed: the
\* tokens obtained are those of the line with a backslash appended.
C15_TrailingEscape ==
    (tk_pc = "items" /\ tk_hist # <<>> /\ EndsEscaped(tk_hist[Len(tk_hist)])) =>
        tk_items = parse_line(Append(tk_hist[Len(tk_hist)], BACKSLASH))


\* the prefix of b that ends just before the last space of b; the empty
\* string when b holds no space
BeforeLastSpace(b) ==
    LET spaces == {i \in 1..Len(b) : b[i] = SPACE} IN
    IF spaces = {} THEN <<>>
    ELSE SubSeq(b, 1, (CHOOSE i \in spaces : \A j \in spaces : j <= i) - 1)

\* C12: a tick that reads ^W in Normal mode leaves the line buffer equal to
\* the prefix of the buffer that ends just before its last space, and empty
\* when the buffer held no space.
C12_DeleteWord ==
    [][\A s \in Shells :
          ( /\ Op(shell'[s]) = "loop_one"
            /\ ByteRead(shell'[s]) = CTRL_W
            /\ shell[s].mode_ = "NORMAL" ) =>
                shell'[s].line_buffer_ = BeforeLastSpace(shell[s].line_buffer_)]_vars

\* ^W was read in Normal mode and left text: the word after a space is gone
C12_Witness ==
    /\ Op(shell[1]) = "loop_one"
    /\ ByteRead(shell[1]) = CTRL_W
    /\ shell[1].mode_ = "NORMAL"
    /\ shell[1].line_buffer_ # <<>>
    /\ shell[1].line_buffer_[Len(shell[1].line_buffer_)] # SPACE


\* C13: with the statements of operator<< interleaved with those of
\* output_logs in any way, the queue never holds more than
\* maximum_log_messages entries, output_logs renders no entry that operator<<
\* has dropped (it reads no destroyed entry) and removes none from an empty
\* list, operator<< drops none from an empty list, and no entry is rendered
\* twice.
C13_ConcurrentAppend ==
    \A s \in Shells :
        /\ Len(shell[s].log_messages_) <= maximum_log_messages
        /\ \A i \in 1..Len(shell[s].trace) :
              LET e == shell[s].trace[i] IN
              /\ e.kind = "log" => ~e.flag /\ e.text = <<>>
              /\ e.kind \in {"pop_front", "drop"} => ~e.flag


\* mode m goes with mode data d: none in Normal mode, password data in
\* Password mode, delay data in Delay mode
DataMatches(m, d) ==
    /\ m = "NORMAL" <=> d = NoData
    /\ m = "PASSWORD" <=> d.kind = "password"
    /\ m = "DELAY" <=> d.kind = "delay"

\* C14: between operations, and at the start of every callback and every
\* call out of the shell, mode data is present exactly when the mode is not
\* Normal, and it is the data of that mode.
C14_ModeData ==
    \A s \in Shells :
        /\ DataMatches(shell[s].mode_, shell[s].mode_data_)
        /\ \A i \in 1..Len(shell[s].trace) :
              LET e == shell[s].trace[i] IN
              e.kind \in {"password_function", "delay_function", "execute_command",
                          "complete_command", "stopped", "end_of_transmission"}
                  => DataMatches(e.mode, e.data)

\* a password callback was entered in Normal mode with no mode data and
\* put the shell in Delay mode
C14_Witness ==
    /\ \E i \in 1..Len(shell[1].trace) :
          /\ shell[1].trace[i].kind = "password_function"
          /\ shell[1].trace[i].mode = "NORMAL"
          /\ shell[1].trace[i].data = NoData
    /\ shell[1].mode_ = "DELAY"
    /\ shell[1].mode_data_.kind = "delay"


\* the last thing the shell wrote is a prompt: "$ " of Normal mode, or the
\* password prompt
PromptShown(sh) ==
    LET n == Len(sh.tx) IN
    \/ n >= 2 /\ sh.tx[n - 1].data = <<36>> /\ sh.tx[n].data = <<SPACE>>
    \/ n >= 1 /\ sh.tx[n].data \in Prompts

\* C16: a tick that reads a command terminator in Normal mode (CR, or LF not
\* after CR) calls the dispatcher's execute_command exactly once, with the
\* tokens of the line buffer and the buffer already cleared, when there are
\* tokens and a dispatcher, and not at all otherwise; it leaves the buffer
\* empty, and the prompt is displayed afterwards only when the shell still
\* runs.  No other tick calls execute_command.
C16_CommandTerminator ==
    [][\A s \in Shells :
          LET sh == shell[s]
              c == ByteRead(shell'[s])
              r == OfKind(shell'[s].trace, {"read"})
              calls == OfKind(shell'[s].trace, {"execute_command"})
              tokens == parse_line(sh.line_buffer_)
          IN IF /\ sh.mode_ = "NORMAL"
                /\ Op(shell'[s]) = "loop_one"
                /\ \/ c = CARRIAGE_RETURN
                   \/ c = LINE_FEED /\ ~r[1].flag
             THEN /\ IF tokens # <<>> /\ sh.commands_
                     THEN /\ Len(calls) = 1
                          /\ calls[1].text = tokens
                          /\ calls[1].buffer = <<>>
                     ELSE calls = <<>>
                  /\ shell'[s].line_buffer_ = <<>>
                  /\ ~running(shell'[s]) => ~PromptShown(shell'[s])
                  /\ (running(shell'[s]) /\ shell'[s].mode_ # "DELAY")
                        => PromptShown(shell'[s])
             ELSE calls = <<>>]_vars

\* a command of two tokens was executed and stopped the shell: no prompt
C16_Witness ==
    LET calls == OfKind(shell[1].trace, {"execute_command"}) IN
    /\ Len(calls) = 1
    /\ Len(calls[1].text) = 2
    /\ ~running(shell[1])
    /\ ~PromptShown(shell[1])


\* the position in trace of the first event of kind k (0: none)
FirstOf(trace, k) ==
    IF \E i \in 1..Len(trace) : trace[i].kind = k
    THEN CHOOSE i \in 1..Len(trace) :
            trace[i].kind = k /\ \A j \in 1..(i - 1) : trace[j].kind # k
    ELSE 0

\* the position in trace of the last event of kind k (0: none)
LastOfKind(trace, k) ==
    IF \E i \in 1..Len(trace) : trace[i].kind = k
    THEN CHOOSE i \in 1..Len(trace) :
            trace[i].kind = k /\ \A j \in (i + 1)..Len(trace) : trace[j].kind # k
    ELSE 0

\* C17: a loop_one tick that starts with log messages queued renders each
\* of them once, in the order of the queue (increasing id), and leaves the
\* queue empty, all before it reads an input byte or runs a callback; it
\* erases the current line first unless the mode is Delay, and it displays
\* the prompt of the mode right after the last message.  A tick that starts
\* with the queue empty renders nothing.
C17_DrainOnTick ==
    [][\A s \in Shells :
          Op(shell'[s]) = "loop_one" =>
            LET sh == shell[s]
                queue == sh.log_messages_
                n == Len(queue)
                trace == shell'[s].trace
                tx == shell'[s].tx
                logs == OfKind(trace, {"log"})
                first == IF sh.mode_ # "DELAY" /\ n > 0 THEN 1 ELSE 0
                after == first + 2 * n
                next == FirstOf(trace, "read")
                call == FirstOf(trace, "delay_function")
            IN /\ Len(logs) = n
               /\ \A i \in 1..n : logs[i].arg = queue[i].id_
               /\ \A i \in 1..(n - 1) : logs[i].arg < logs[i + 1].arg
               /\ n > 0 =>
                    /\ shell'[s].log_messages_ = <<>>
                    /\ next # 0 => next > LastOfKind(trace, "log")
                    /\ call # 0 => call > LastOfKind(trace, "log")
                    /\ Len(tx) >= after
                    /\ first = 1 => tx[1].data = <<27, 91, 48, 71, 27, 91, 75>>
                    /\ \A i \in 1..n :
                          /\ tx[first + 2 * i - 1].data = <<queue[i].content_, 48 + queue[i].id_>>
                          /\ tx[first + 2 * i].data = <<13, 10>>
                    /\ sh.mode_ = "NORMAL" =>
                          /\ Len(tx) >= after + 2
                          /\ tx[after + 1].data = <<36>>
                          /\ tx[after + 2].data = <<SPACE>>
                    /\ sh.mode_ = "PASSWORD" =>
                          /\ Len(tx) >= after + 1
                          /\ tx[after + 1].data = sh.mode_data_.password_prompt_]_vars

\* a tick in Delay mode has rendered two queued messages, with no erase
C17_Witness ==
    /\ Op(shell[1]) = "loop_one"
    /\ Len(OfKind(shell[1].trace, {"log"})) = 2
    /\ shell[1].mode_ = "DELAY"
    /\ shell[1].tx[1].data # <<27, 91, 48, 71, 27, 91, 75>>
    /\ shell[1].log_messages_ = <<>>


\* The logger in the loop's own context: it gets control at the ::yield()
\* of output_logs (and between ticks) and appends there; the loop goes on
\* whenever it can.
PutAtYield(s, message) ==
    /\ s \in shells_
    /\ shell[s].log_pc \in {"idle", "yield"}
    /\ shell' = After(s, [LogAppend(Observed(shell[s]), message)
                              EXCEPT !.log_message_id_ = @ % LogIdWrap])
    /\ UNCHANGED <<shells_, started, uptime, tkVars>>

LoopStep == DrainStep(1) \/ Dispatch(1, DrainBytes)

NextYield ==
    \/ Start(1)
    \/ \E m \in Messages : PutAtYield(1, m)
    \/ LoopStep

SpecYield == Init /\ [][NextYield]_vars /\ WF_vars(LoopStep)

\* C18: output_logs finishes: once the drain of a tick is at its while
\* loop, the tick gets to the switch of loop_one, whatever the logger
\* appends at the yield after each pop.
C18_DrainEnds ==
    \A s \in Shells :
        (shell[s].log_pc = "test") ~> (shell[s].log_pc = "dispatch")


\* C19: a byte that became available while the shell was in Delay mode (the
\* only bytes a tick finds already waiting on the stream) is ignored, during
\* the delay and after it: the tick that finds it leaves the line buffer and
\* the previous input byte as they are and calls neither execute_command nor
\* complete_command nor end_of_transmission.
C19_DelayIgnoresInput ==
    [][\A s \in Shells :
          (Op(shell'[s]) = "loop_one" /\ shell[s].stream_ # <<>>) =>
              /\ shell'[s].line_buffer_ = shell[s].line_buffer_
              /\ shell'[s].previous_ = shell[s].previous_
              /\ OfKind(shell'[s].trace, {"execute_command", "complete_command",
                                          "end_of_transmission"}) = <<>>]_vars


\* C20: once stop() was called on a shell, no pass of loop_all reads an
\* input byte for it, calls execute_command or complete_command for it, or
\* runs its password or delay callback.
C20_StoppedNotProcessed ==
    [][\A s \in Shells :
          (Op(shell'[s]) = "loop_one" /\ ~running(shell[s])) =>
              OfKind(shell'[s].trace,
                     {"read", "execute_command", "complete_command",
                      "password_function", "delay_function"}) = <<>>]_vars

====
